---- MODULE Spec2Model ----
(***************************************************************************)
(* A model of the content store of the optimizer-labs site                 *)
(* (src/src/home/models.py, src/src/home/views.py): the page tree with its *)
(* placement rules, the snippets, the owned child rows, the media they     *)
(* reference, and the two get_context handlers plus home_view.             *)
(*                                                                         *)
(* Dates and client names are natural numbers standing for their rank in   *)
(* the store's ordering (a later date is a larger number).                 *)
(***************************************************************************)
EXTENDS Naturals, Integers, Sequences, FiniteSets, TLC

VARIABLES pages, images, documents, testimonials, press_cuts, steps,
          gallery_images, tags, tagged_items, seq, ctx, outcome

vars == <<pages, images, documents, testimonials, press_cuts, steps,
          gallery_images, tags, tagged_items, seq, ctx, outcome>>

\* Everything the persistent store holds (ctx and outcome are responses).
store == <<pages, images, documents, testimonials, press_cuts, steps,
           gallery_images, tags, tagged_items, seq>>

Null == 0

\* ------------------------------------------------------------------ bounds
\* The page tree of SpecTree: page ids handed out, the root's included.
MaxTreePages == 4
\* The greatest step number a move may hand out in a path.
MaxPathStep == 2
\* Dates are 1..MaxDate.
MaxDate == 2
\* The case studies an editor adds to the site of SpecIndex.
MaxCaseStudies == 2
\* The case studies an editor adds to the site of SpecFeatured.
MaxFeaturedPages == 4
\* The site of SpecHome: index pages, testimonials and press cuts added,
\* and client names 1..MaxName.
MaxIndexPages == 2
MaxTestimonials == 1
MaxHomePressCuts == 1
MaxName == 2
\* The press cuts an editor adds to the site of SpecPress.
MaxPressCuts == 4
\* The images and the documents uploaded, and the references made to them
\* in SpecMedia.
MaxImages == 2
MaxDocuments == 1
MaxMediaUses == 2
\* The method pages and the steps added in SpecMethode.
MaxMethodePages == 2
MaxSteps == 2
\* The case studies an editor adds to the site of SpecTags.
MaxTaggedPages == 2

\* ------------------------------------------------------- program constants
FeaturedLimit == 4
PressLimit == 3
ViewPressLimit == 3

\* ----------------------------------------------------------------- helpers
Max(S) == CHOOSE x \in S : \A y \in S : y <= x

Min2(a, b) == IF a <= b THEN a ELSE b

Take(s, n) == SubSeq(s, 1, Min2(n, Len(s)))

Range(s) == {s[i] : i \in 1..Len(s)}

IsPrefix(p, q) == Len(p) <= Len(q) /\ SubSeq(q, 1, Len(p)) = p

\* --------------------------------------------------------------- page types
PageTypes == {"Page", "HomePage", "CaseStudyIndexPage", "CaseStudyPage",
              "AboutPage", "MethodePage", "ContactPage"}

\* The page types this application defines (wagtailcore.Page is the root's).
AppPageTypes == PageTypes \ {"Page"}

\* parent_page_types of each page class; wagtailcore.Page keeps the default
\* (any page type).
parent_page_types(t) ==
    CASE t = "HomePage" -> {"Page"}
      [] t = "CaseStudyIndexPage" -> {"HomePage"}
      [] t = "CaseStudyPage" -> {"CaseStudyIndexPage"}
      [] t = "AboutPage" -> {"HomePage"}
      [] t = "MethodePage" -> {"HomePage"}
      [] t = "ContactPage" -> {"HomePage"}
      [] OTHER -> PageTypes

\* subpage_types of each page class; wagtailcore.Page keeps the default.
subpage_types(t) ==
    CASE t = "HomePage" -> {"CaseStudyIndexPage", "AboutPage", "MethodePage",
                            "ContactPage"}
      [] t = "CaseStudyIndexPage" -> {"CaseStudyPage"}
      [] t = "CaseStudyPage" -> {}
      [] t = "AboutPage" -> {}
      [] t = "MethodePage" -> {}
      [] t = "ContactPage" -> {}
      [] OTHER -> PageTypes

\* A faulty variant of can_exist_under: only the parent's subpage_types are consulted.
can_exist_under_subpage_only(t, pt) == t \in subpage_types(pt)

\* Page.can_exist_under / can_create_at / can_move_to: the parent's class is
\* one of the child's parent_page_types and the child's class is one of the
\* parent's subpage_types.
can_exist_under(t, pt) ==
    /\ pt \in parent_page_types(t)
    /\ t \in subpage_types(pt)

\* ---------------------------------------------------------------- page tree
PageIds == DOMAIN pages

depth(p) == Len(pages[p].path)

is_child_of(c, p) ==
    /\ depth(c) = depth(p) + 1
    /\ IsPrefix(pages[p].path, pages[c].path)

is_descendant_of(c, p) ==
    /\ depth(c) > depth(p)
    /\ IsPrefix(pages[p].path, pages[c].path)

children(p) == {c \in PageIds : is_child_of(c, p)}

descendants(p) == {c \in PageIds : is_descendant_of(c, p)}

\* The parent of a page (Null for the root).
parent_of(c) ==
    IF \E p \in PageIds : is_child_of(c, p)
    THEN CHOOSE p \in PageIds : is_child_of(c, p)
    ELSE Null

\* The path add_child / move(pos="last-child") gives a new last child of p.
last_child_path(p) ==
    LET cs == children(p)
        last == IF cs = {} THEN 0
                ELSE Max({pages[c].path[depth(c)] : c \in cs})
    IN Append(pages[p].path, last + 1)

\* Whether path a sorts before path b (the page manager's order_by("path")).
RECURSIVE path_less(_, _)
path_less(a, b) ==
    IF a = <<>> THEN b # <<>>
    ELSE IF b = <<>> THEN FALSE
    ELSE IF Head(a) # Head(b) THEN Head(a) < Head(b)
    ELSE path_less(Tail(a), Tail(b))

NewPage(t, path, live, restricted, date, image) ==
    [type |-> t, path |-> path, live |-> live, view_restricted |-> restricted,
     project_date |-> date, image |-> image]

RootPage == NewPage("Page", <<1>>, TRUE, FALSE, Null, Null)

NoOutcome == [op |-> "none", type |-> "Page", parent_type |-> "Page", ok |-> TRUE]

NoCtx == [kind |-> "none"]

Restrict(f, S) == [x \in S |-> f[x]]

\* --------------------------------------------------------- media references
\* The image foreign key of each page class (the model keeps it in the one
\* record field "image").
image_field(t) ==
    CASE t = "HomePage" -> "hero_image"
      [] t = "AboutPage" -> "profile_image"
      [] t = "MethodePage" -> "global_schema"
      [] t = "CaseStudyPage" -> "main_image"
      [] OTHER -> "none"

\* A faulty variant of on_delete: every media foreign key cascades.
on_delete_all_cascade(model, field) == "CASCADE"

\* A faulty variant of on_delete: every media foreign key is nulled.
on_delete_all_set_null(model, field) == "SET_NULL"

\* The on_delete argument of each foreign key to an image or a document.
on_delete(model, field) ==
    CASE model = "ClientTestimonial" /\ field = "client_logo" -> "SET_NULL"
      [] model = "PressCut" /\ field = "file" -> "SET_NULL"
      [] model = "PressCut" /\ field = "cover_image" -> "SET_NULL"
      [] model = "MethodeStep" /\ field = "schema" -> "SET_NULL"
      [] model = "MethodePage" /\ field = "global_schema" -> "SET_NULL"
      [] model = "AboutPage" /\ field = "profile_image" -> "SET_NULL"
      [] model = "CaseStudyGalleryImage" /\ field = "image" -> "CASCADE"
      [] model = "CaseStudyPage" /\ field = "main_image" -> "SET_NULL"
      [] model = "HomePage" /\ field = "hero_image" -> "SET_NULL"
      [] OTHER -> "SET_NULL"

\* A faulty variant of owner_on_delete: deleting a page leaves its owned rows behind.
owner_on_delete_keep(model) == "DO_NOTHING"

\* The on_delete argument of each ParentalKey to the owning page.
owner_on_delete(model) ==
    CASE model = "MethodeStep" -> "CASCADE"
      [] model = "CaseStudyTag" -> "CASCADE"
      [] model = "CaseStudyGalleryImage" -> "CASCADE"
      [] OTHER -> "CASCADE"

\* The rows of a table after the media item `target` its `field` points to
\* is deleted.
after_media_delete(rows, model, field, target) ==
    IF on_delete(model, field) = "CASCADE"
    THEN Restrict(rows, {r \in DOMAIN rows : rows[r][field] # target})
    ELSE [r \in DOMAIN rows |->
            IF rows[r][field] = target
            THEN [rows[r] EXCEPT ![field] = Null]
            ELSE rows[r]]

\* The rows of a table owned by pages after the pages `gone` are deleted.
after_owner_delete(rows, model, owner, gone) ==
    IF owner_on_delete(model) = "CASCADE"
    THEN Restrict(rows, {r \in DOMAIN rows : rows[r][owner] \notin gone})
    ELSE rows

\* The pages a deleted image takes with it: those whose image key cascades,
\* and their subtrees.
pages_lost_with_image(i) ==
    LET hit == {p \in PageIds :
                  /\ pages[p].image = i
                  /\ on_delete(pages[p].type, image_field(pages[p].type)) = "CASCADE"}
    IN hit \cup UNION {descendants(p) : p \in hit}

\* ------------------------------------------------------------ write actions
\* Every write answers with its own outcome; an earlier read's context is
\* no longer the store's.
\* Page creation under `parent` (add_subpage): refused unless the placement
\* rules allow the pair.
add_subpage(parent, t, live, restricted, date, image) ==
    /\ parent \in PageIds
    /\ image \in images \cup {Null}
    /\ image # Null => image_field(t) # "none"
    /\ LET id == seq.page + 1
           ok == can_exist_under(t, pages[parent].type)
       IN /\ outcome' = [op |-> "create", type |-> t,
                         parent_type |-> pages[parent].type, ok |-> ok]
          /\ IF ok
             THEN /\ pages' = (id :> NewPage(t, last_child_path(parent), live,
                                            restricted, date, image)) @@ pages
                  /\ seq' = [seq EXCEPT !.page = id]
             ELSE UNCHANGED <<pages, seq>>
    /\ ctx' = NoCtx
    /\ UNCHANGED <<images, documents, testimonials, press_cuts, steps,
                   gallery_images, tags, tagged_items>>

\* Page.move(target, pos="last-child"): refused unless the placement rules
\* allow the pair; the page's subtree moves with it.
move_page(p, target) ==
    /\ p \in PageIds /\ target \in PageIds
    /\ depth(p) > 1
    /\ p # target /\ ~is_descendant_of(target, p)
    /\ LET ok == can_exist_under(pages[p].type, pages[target].type)
           cs == children(target)
           is_last == /\ p \in cs
                      /\ \A c \in cs : ~path_less(pages[p].path, pages[c].path)
           old == pages[p].path
           new == IF is_last THEN old ELSE last_child_path(target)
       IN /\ outcome' = [op |-> "move", type |-> pages[p].type,
                         parent_type |-> pages[target].type, ok |-> ok]
          /\ IF ok
             THEN pages' = [q \in PageIds |->
                    IF q = p \/ is_descendant_of(q, p)
                    THEN [pages[q] EXCEPT !.path =
                            new \o SubSeq(pages[q].path, Len(old) + 1,
                                          Len(pages[q].path))]
                    ELSE pages[q]]
             ELSE UNCHANGED pages
    /\ ctx' = NoCtx
    /\ UNCHANGED <<images, documents, testimonials, press_cuts, steps,
                   gallery_images, tags, tagged_items, seq>>

\* Page.delete(): the page and its subtree go, and with them the rows whose
\* ParentalKey cascades.
delete_page(p) ==
    /\ p \in PageIds
    /\ depth(p) > 1
    /\ LET gone == {p} \cup descendants(p)
       IN /\ pages' = Restrict(pages, PageIds \ gone)
          /\ steps' = after_owner_delete(steps, "MethodeStep", "page", gone)
          /\ gallery_images' = after_owner_delete(gallery_images,
                                   "CaseStudyGalleryImage", "page", gone)
          /\ tagged_items' = after_owner_delete(tagged_items, "CaseStudyTag",
                                   "content_object", gone)
    /\ ctx' = NoCtx
    /\ outcome' = NoOutcome
    /\ UNCHANGED <<images, documents, testimonials, press_cuts, tags, seq>>

\* An image is uploaded (wagtailimages.Image).
upload_image ==
    /\ images' = images \cup {seq.image + 1}
    /\ seq' = [seq EXCEPT !.image = seq.image + 1]
    /\ ctx' = NoCtx
    /\ outcome' = NoOutcome
    /\ UNCHANGED <<pages, documents, testimonials, press_cuts, steps,
                   gallery_images, tags, tagged_items>>

\* A document is uploaded (wagtaildocs.Document).
upload_document ==
    /\ documents' = documents \cup {seq.document + 1}
    /\ seq' = [seq EXCEPT !.document = seq.document + 1]
    /\ ctx' = NoCtx
    /\ outcome' = NoOutcome
    /\ UNCHANGED <<pages, images, testimonials, press_cuts, steps,
                   gallery_images, tags, tagged_items>>

\* An image is deleted: each foreign key to it follows its on_delete.
delete_image(i) ==
    /\ i \in images
    /\ images' = images \ {i}
    /\ LET gone == pages_lost_with_image(i)
           kept == Restrict(pages, PageIds \ gone)
       IN /\ pages' = [p \in DOMAIN kept |->
                         IF kept[p].image = i
                         THEN [kept[p] EXCEPT !.image = Null]
                         ELSE kept[p]]
          /\ steps' = after_media_delete(
                         after_owner_delete(steps, "MethodeStep", "page", gone),
                         "MethodeStep", "schema", i)
          /\ gallery_images' = after_media_delete(
                         after_owner_delete(gallery_images,
                             "CaseStudyGalleryImage", "page", gone),
                         "CaseStudyGalleryImage", "image", i)
          /\ tagged_items' = after_owner_delete(tagged_items, "CaseStudyTag",
                                 "content_object", gone)
    /\ testimonials' = after_media_delete(testimonials, "ClientTestimonial",
                           "client_logo", i)
    /\ press_cuts' = after_media_delete(press_cuts, "PressCut", "cover_image", i)
    /\ ctx' = NoCtx
    /\ outcome' = NoOutcome
    /\ UNCHANGED <<documents, tags, seq>>

\* A document is deleted: PressCut.file follows its on_delete.
delete_document(d) ==
    /\ d \in documents
    /\ documents' = documents \ {d}
    /\ press_cuts' = after_media_delete(press_cuts, "PressCut", "file", d)
    /\ ctx' = NoCtx
    /\ outcome' = NoOutcome
    /\ UNCHANGED <<pages, images, testimonials, steps, gallery_images, tags,
                   tagged_items, seq>>

\* An editor sets the image of a page that has none (hero_image,
\* profile_image, global_schema or main_image, by the page's class).
set_page_image(p, i) ==
    /\ p \in PageIds /\ i \in images
    /\ image_field(pages[p].type) # "none"
    /\ pages[p].image = Null
    /\ pages' = [pages EXCEPT ![p].image = i]
    /\ ctx' = NoCtx
    /\ outcome' = NoOutcome
    /\ UNCHANGED <<images, documents, testimonials, press_cuts, steps,
                   gallery_images, tags, tagged_items, seq>>

\* A ClientTestimonial snippet is created.
create_testimonial(name, logo) ==
    /\ logo \in images \cup {Null}
    /\ testimonials' = (seq.testimonial + 1 :>
                          [client_name |-> name, client_logo |-> logo])
                       @@ testimonials
    /\ seq' = [seq EXCEPT !.testimonial = seq.testimonial + 1]
    /\ ctx' = NoCtx
    /\ outcome' = NoOutcome
    /\ UNCHANGED <<pages, images, documents, press_cuts, steps, gallery_images,
                   tags, tagged_items>>

\* A PressCut snippet is created.
create_press_cut(date, file, cover) ==
    /\ file \in documents \cup {Null}
    /\ cover \in images \cup {Null}
    /\ press_cuts' = (seq.press_cut + 1 :>
                        [date |-> date, file |-> file, cover_image |-> cover])
                     @@ press_cuts
    /\ seq' = [seq EXCEPT !.press_cut = seq.press_cut + 1]
    /\ ctx' = NoCtx
    /\ outcome' = NoOutcome
    /\ UNCHANGED <<pages, images, documents, testimonials, steps,
                   gallery_images, tags, tagged_items>>

\* A MethodeStep is added to a MethodePage (InlinePanel "steps").
add_step(p, schema) ==
    /\ p \in PageIds /\ pages[p].type = "MethodePage"
    /\ schema \in images \cup {Null}
    /\ steps' = (seq.step + 1 :> [page |-> p, schema |-> schema]) @@ steps
    /\ seq' = [seq EXCEPT !.step = seq.step + 1]
    /\ ctx' = NoCtx
    /\ outcome' = NoOutcome
    /\ UNCHANGED <<pages, images, documents, testimonials, press_cuts,
                   gallery_images, tags, tagged_items>>

\* A CaseStudyGalleryImage is added to a CaseStudyPage (its image is not
\* nullable).
add_gallery_image(p, image) ==
    /\ p \in PageIds /\ pages[p].type = "CaseStudyPage"
    /\ image \in images
    /\ gallery_images' = (seq.gallery_image + 1 :> [page |-> p, image |-> image])
                         @@ gallery_images
    /\ seq' = [seq EXCEPT !.gallery_image = seq.gallery_image + 1]
    /\ ctx' = NoCtx
    /\ outcome' = NoOutcome
    /\ UNCHANGED <<pages, images, documents, testimonials, press_cuts, steps,
                   tags, tagged_items>>

\* ---------------------------------------------------------------------- tags
\* The tag labels of the model and the lower-case form slugify gives each.
Labels == {"a", "A", "b"}

slugify(label) ==
    CASE label = "A" -> "a"
      [] label = "B" -> "b"
      [] OTHER -> label

\* The slug a new Tag gets: slugify(name), with "_1" appended when another
\* tag already holds that slug.
new_tag_slug(label) ==
    LET s == slugify(label)
        taken == {tags[l] : l \in DOMAIN tags}
    IN IF s \notin taken THEN s
       ELSE CASE s = "a" -> "a_1" [] s = "b" -> "b_1" [] OTHER -> s

\* page.tags.add(label): the Tag is created on first use, and the page gets
\* one CaseStudyTag row for it.
tag_add(p, label) ==
    /\ p \in PageIds /\ pages[p].type = "CaseStudyPage"
    /\ <<p, label>> \notin DOMAIN tagged_items
    /\ tags' = IF label \in DOMAIN tags THEN tags
               ELSE (label :> new_tag_slug(label)) @@ tags
    /\ tagged_items' = (<<p, label>> :> [content_object |-> p, tag |-> label])
                       @@ tagged_items
    /\ ctx' = NoCtx
    /\ outcome' = NoOutcome
    /\ UNCHANGED <<pages, images, documents, testimonials, press_cuts, steps,
                   gallery_images, seq>>

\* ------------------------------------------------------------------ queries
\* Model.objects of a page class.
objects(t) == {p \in PageIds : pages[p].type = t}

\* PageQuerySet.live(): published pages.
live(S) == {p \in S : pages[p].live}

\* PageQuerySet.public(): pages under no view restriction, their own or an
\* ancestor's.
public(S) ==
    {p \in S : \A q \in PageIds :
        IsPrefix(pages[q].path, pages[p].path) => ~pages[q].view_restricted}

\* PageQuerySet.child_of(parent).
child_of(S, parent) == {p \in S : is_child_of(p, parent)}

\* Every sequence the store may return for the rows S ordered by rank,
\* greatest first: rows of equal rank come in an order the query leaves open.
RECURSIVE orderings(_, _)
orderings(S, rank) ==
    IF S = {} THEN {<<>>}
    ELSE LET firsts == {x \in S : \A y \in S : rank[x] >= rank[y]}
         IN UNION {{<<x>> \o t : t \in orderings(S \ {x}, rank)} : x \in firsts}

\* A faulty variant of order_by: the direction is reversed.
order_by_reversed(S, key, descending) ==
    orderings(S, [x \in S |-> IF descending THEN 0 - key[x] ELSE key[x]])

\* QuerySet.order_by(field) / order_by("-" + field), and Meta.ordering.
order_by(S, key, descending) ==
    orderings(S, [x \in S |-> IF descending THEN key[x] ELSE 0 - key[x]])

\* QuerySet.filter(tagged_items__tag__slug=tag).
filter_tag_slug(S, tag) ==
    {p \in S : \E k \in DOMAIN tagged_items :
        /\ tagged_items[k].content_object = p
        /\ tags[tagged_items[k].tag] = tag}

\* The page manager's first(): the first page of S in path order, or None.
first_by_path(S) ==
    IF S = {} THEN Null
    ELSE CHOOSE p \in S : \A q \in S : ~path_less(pages[q].path, pages[p].path)

\* request.GET.get("tag"): the parameter, or None when the request has none.
None == "None"

get_param(GET, name) == IF name \in DOMAIN GET THEN GET[name] ELSE None

\* Python truth of the tag parameter ("if tag:").
truthy(tag) == tag # None /\ tag # ""

project_dates == [p \in objects("CaseStudyPage") |-> pages[p].project_date]

press_dates == [r \in DOMAIN press_cuts |-> press_cuts[r].date]

client_names == [r \in DOMAIN testimonials |-> testimonials[r].client_name]

\* A faulty variant of index_projects: the listing is not scoped to this index.
index_projects_unscoped(self, tag) ==
    LET base == public(live(objects("CaseStudyPage")))
        kept == IF truthy(tag) THEN filter_tag_slug(base, tag) ELSE base
    IN order_by(kept, project_dates, TRUE)

\* A faulty variant of index_projects: draft pages are listed too.
index_projects_with_drafts(self, tag) ==
    LET base == child_of(public(objects("CaseStudyPage")), self)
        kept == IF truthy(tag) THEN filter_tag_slug(base, tag) ELSE base
    IN order_by(kept, project_dates, TRUE)

\* A faulty variant of index_projects: the tag parameter is lower-cased first.
index_projects_normalized(self, tag) ==
    LET base == child_of(public(live(objects("CaseStudyPage"))), self)
        kept == IF truthy(tag) THEN filter_tag_slug(base, slugify(tag)) ELSE base
    IN order_by(kept, project_dates, TRUE)

\* The listings CaseStudyIndexPage.get_context may return as "projects".
index_projects(self, tag) ==
    LET base == child_of(public(live(objects("CaseStudyPage"))), self)
        kept == IF truthy(tag) THEN filter_tag_slug(base, tag) ELSE base
    IN order_by(kept, project_dates, TRUE)

\* A faulty variant of featured_projects: the slice is dropped.
featured_projects_unsliced ==
    order_by(public(live(objects("CaseStudyPage"))), project_dates, TRUE)

\* The sequences HomePage.get_context may return as "featured_projects".
featured_projects ==
    {Take(s, FeaturedLimit) :
        s \in order_by(public(live(objects("CaseStudyPage"))), project_dates, TRUE)}

\* A faulty variant of home_case_study_index: a draft index counts too.
home_case_study_index_any(self) ==
    first_by_path(child_of(objects("CaseStudyIndexPage"), self))

\* "case_study_index" of HomePage.get_context.
home_case_study_index(self) ==
    first_by_path(child_of(live(objects("CaseStudyIndexPage")), self))

\* "testimonials" of HomePage.get_context: all, in Meta.ordering (client_name).
home_testimonials == order_by(DOMAIN testimonials, client_names, FALSE)

\* A faulty variant of home_press_cuts: the rows come in insertion (id) order.
home_press_cuts_by_id ==
    {Take(s, PressLimit) :
        s \in order_by(DOMAIN press_cuts, [r \in DOMAIN press_cuts |-> r], FALSE)}

\* "press_cuts" of HomePage.get_context: all()[:3] in Meta.ordering (-date).
home_press_cuts ==
    {Take(s, PressLimit) : s \in order_by(DOMAIN press_cuts, press_dates, TRUE)}

\* press_cuts of home_view: all().order_by("-date")[:3].
view_press_cuts ==
    {Take(s, ViewPressLimit) : s \in order_by(DOMAIN press_cuts, press_dates, TRUE)}

\* ------------------------------------------------------------- read handlers
\* A faulty variant of index_get_context: the tag is looked up with get_or_create, so
\* a request for an unknown tag adds it to the store.
index_get_context_get_or_create(self, GET) ==
    /\ self \in objects("CaseStudyIndexPage")
    /\ LET tag == get_param(GET, "tag")
       IN /\ \E projects \in index_projects(self, tag) :
                ctx' = [kind |-> "index", page |-> self, GET |-> GET,
                        projects |-> projects, current_tag |-> tag]
          /\ tags' = IF truthy(tag) /\ tag \notin DOMAIN tags
                     THEN (tag :> new_tag_slug(tag)) @@ tags
                     ELSE tags
    /\ outcome' = NoOutcome
    /\ UNCHANGED <<pages, images, documents, testimonials, press_cuts, steps,
                   gallery_images, tagged_items, seq>>

\* CaseStudyIndexPage.get_context(request).
index_get_context(self, GET) ==
    /\ self \in objects("CaseStudyIndexPage")
    /\ LET tag == get_param(GET, "tag")
       IN \E projects \in index_projects(self, tag) :
            ctx' = [kind |-> "index", page |-> self, GET |-> GET,
                    projects |-> projects, current_tag |-> tag]
    /\ outcome' = NoOutcome
    /\ UNCHANGED store

\* HomePage.get_context(request).
home_get_context(self) ==
    /\ self \in objects("HomePage")
    /\ \E fp \in featured_projects, ts \in home_testimonials,
          pc \in home_press_cuts :
            ctx' = [kind |-> "home", page |-> self,
                    case_study_index |-> home_case_study_index(self),
                    featured_projects |-> fp, testimonials |-> ts,
                    press_cuts |-> pc]
    /\ outcome' = NoOutcome
    /\ UNCHANGED store

\* home_view(request).
home_view ==
    /\ \E pc \in view_press_cuts :
            ctx' = [kind |-> "home_view",
                    page |-> first_by_path(objects("HomePage")),
                    press_cuts |-> pc]
    /\ outcome' = NoOutcome
    /\ UNCHANGED store

\* The template renders the returned context and the request ends.
render ==
    /\ ctx # NoCtx
    /\ ctx' = NoCtx
    /\ outcome' = NoOutcome
    /\ UNCHANGED store

\* ------------------------------------------------------------ specifications
EmptyStore ==
    /\ pages = (1 :> RootPage)
    /\ images = {}
    /\ documents = {}
    /\ testimonials = <<>>
    /\ press_cuts = <<>>
    /\ steps = <<>>
    /\ gallery_images = <<>>
    /\ tags = <<>>
    /\ tagged_items = <<>>
    /\ seq = [page |-> 1, image |-> 0, document |-> 0, testimonial |-> 0,
              press_cut |-> 0, step |-> 0, gallery_image |-> 0]
    /\ ctx = NoCtx
    /\ outcome = NoOutcome

\* The page tree under creates, moves and deletes.
InitTree == EmptyStore

NextTree ==
    \/ \E parent \in PageIds, t \in AppPageTypes :
          /\ seq.page < MaxTreePages
          /\ add_subpage(parent, t, TRUE, FALSE, Null, Null)
    \/ \E p \in PageIds, target \in PageIds :
          /\ last_child_path(target)[depth(target) + 1] <= MaxPathStep
          /\ move_page(p, target)
    \/ \E p \in PageIds : delete_page(p)

SpecTree == InitTree /\ [][NextTree]_vars

\* --------------------------------------------------------------------- C1
\* The placement table of the specification: (page type, parent type).
PlacementTable ==
    {<<"HomePage", "Page">>, <<"CaseStudyIndexPage", "HomePage">>,
     <<"AboutPage", "HomePage">>, <<"MethodePage", "HomePage">>,
     <<"ContactPage", "HomePage">>, <<"CaseStudyPage", "CaseStudyIndexPage">>}

LeafTypes == {"CaseStudyPage", "AboutPage", "MethodePage", "ContactPage"}

IndexSitePages ==
    (1 :> RootPage)
    @@ (2 :> NewPage("HomePage", <<1, 1>>, TRUE, FALSE, Null, Null))
    @@ (3 :> NewPage("CaseStudyIndexPage", <<1, 1, 1>>, TRUE, FALSE, Null, Null))
    @@ (4 :> NewPage("CaseStudyIndexPage", <<1, 1, 2>>, TRUE, FALSE, Null, Null))
    @@ (5 :> NewPage("CaseStudyPage", <<1, 1, 2, 1>>, TRUE, FALSE, MaxDate, Null))
    @@ (6 :> NewPage("CaseStudyPage", <<1, 1, 1, 1>>, FALSE, FALSE, MaxDate, Null))
    @@ (7 :> NewPage("CaseStudyPage", <<1, 1, 1, 2>>, TRUE, TRUE, MaxDate, Null))

IndexSiteLast == Cardinality(DOMAIN IndexSitePages)

TagRows(keys) == [k \in keys |-> [content_object |-> k[1], tag |-> k[2]]]

\* The same site with the three case studies of the specification's example
\* added to index 3: 8 dated 2024-01-01 (2) and tagged a, 9 dated
\* 2024-06-01 (3) and tagged a and b, 10 dated 2023-12-01 (1) and tagged b.
ExampleSitePages ==
    (8 :> NewPage("CaseStudyPage", <<1, 1, 1, 3>>, TRUE, FALSE, 2, Null))
    @@ (9 :> NewPage("CaseStudyPage", <<1, 1, 1, 4>>, TRUE, FALSE, 3, Null))
    @@ (10 :> NewPage("CaseStudyPage", <<1, 1, 1, 5>>, TRUE, FALSE, 1, Null))
    @@ IndexSitePages

ExampleSiteLast == Cardinality(DOMAIN ExampleSitePages)

InitIndex ==
    /\ \/ /\ pages = IndexSitePages
          /\ tags = ("a" :> "a")
          /\ tagged_items = TagRows({<<5, "a">>, <<6, "a">>, <<7, "a">>})
          /\ seq = [page |-> IndexSiteLast, image |-> 0, document |-> 0,
                    testimonial |-> 0, press_cut |-> 0, step |-> 0,
                    gallery_image |-> 0]
       \/ /\ pages = ExampleSitePages
          /\ tags = ("a" :> "a") @@ ("b" :> "b")
          /\ tagged_items = TagRows({<<5, "a">>, <<6, "a">>, <<7, "a">>,
                                     <<8, "a">>, <<9, "a">>, <<9, "b">>,
                                     <<10, "b">>})
          /\ seq = [page |-> ExampleSiteLast, image |-> 0, document |-> 0,
                    testimonial |-> 0, press_cut |-> 0, step |-> 0,
                    gallery_image |-> 0]
    /\ images = {}
    /\ documents = {}
    /\ testimonials = <<>>
    /\ press_cuts = <<>>
    /\ steps = <<>>
    /\ gallery_images = <<>>
    /\ ctx = NoCtx
    /\ outcome = NoOutcome

\* The query strings of the requests: none, or ?tag=<value>.
Requests(values) == {<<>>} \cup {[x \in {"tag"} |-> v] : v \in values}

NextIndex ==
    \/ \E d \in 1..MaxDate :
          /\ seq.page < IndexSiteLast + MaxCaseStudies
          /\ add_subpage(3, "CaseStudyPage", TRUE, FALSE, d, Null)
    \/ \E p \in PageIds, l \in {"a", "b"} :
          /\ p > IndexSiteLast
          /\ tag_add(p, l)
    \/ \E self \in PageIds, GET \in Requests({"", "a", "b"}) :
          index_get_context(self, GET)
    \/ \E self \in PageIds : home_get_context(self)

SpecIndex == InitIndex /\ [][NextIndex]_vars

\* ------------------------------------------------------------------ C2
\* The ancestors of a page, the page included.
SelfAndAncestors(p) == {q \in PageIds : IsPrefix(pages[q].path, pages[p].path)}

\* The case studies the specification says an index lists for a request.
Listed(self, tag) ==
    {p \in PageIds :
        /\ pages[p].type = "CaseStudyPage"
        /\ parent_of(p) = self
        /\ pages[p].live
        /\ \A q \in SelfAndAncestors(p) : ~pages[q].view_restricted
        /\ (tag # None /\ tag # "") =>
              \E l \in DOMAIN tags : tags[l] = tag /\ <<p, l>> \in DOMAIN tagged_items}

DateDescending(s) ==
    \A i \in 1..Len(s), j \in 1..Len(s) :
        i < j => pages[s[i]].project_date >= pages[s[j]].project_date

\* C2: "projects" of CaseStudyIndexPage.get_context holds, once each, exactly
\* the CaseStudyPage records that are direct children of the index, live and
\* public and, when the tag parameter is non-empty, carry the tag the
\* parameter names (by its slug), in project_date descending order; without
\* a tag filter every live public child is listed.
C2_IndexListing ==
    ctx.kind = "index" =>
        LET want == Listed(ctx.page, get_param(ctx.GET, "tag"))
        IN /\ Range(ctx.projects) = want
           /\ Len(ctx.projects) = Cardinality(want)
           /\ DateDescending(ctx.projects)
           /\ ctx.current_tag = get_param(ctx.GET, "tag")

\* The example of the specification: index 3 requested with ?tag=a lists the
\* case study of 2024-06-01 and then that of 2024-01-01, and neither the one
\* tagged b only nor the draft, the restricted or the other index's one.
C2_Witness ==
    /\ ctx.kind = "index" /\ ctx.page = 3
    /\ get_param(ctx.GET, "tag") = "a"
    /\ ctx.projects = <<9, 8>>
    /\ pages[9].project_date = 3 /\ pages[8].project_date = 2
    /\ pages[10].project_date = 1
    /\ <<10, "b">> \in DOMAIN tagged_items /\ <<10, "a">> \notin DOMAIN tagged_items
    /\ <<9, "b">> \in DOMAIN tagged_items

\* ------------------------------------------------------------------ C8
\* C8 as the specification states it: two listed case studies with the same
\* project_date appear in page-id descending order.
C8_TiesByIdDescending ==
    ctx.kind = "index" =>
        \A i \in 1..Len(ctx.projects), j \in 1..Len(ctx.projects) :
            (i < j /\ pages[ctx.projects[i]].project_date
                        = pages[ctx.projects[j]].project_date)
                => ctx.projects[i] > ctx.projects[j]

\* C8, amended: the listing orders case studies by project_date alone: each
\* listed case study stands after every one with a later date and before
\* every one with an earlier date, so its position is fixed up to the
\* case studies that share its date, whose relative order the query leaves
\* open (it is not by page id).
C8_OrderedByDateOnly ==
    ctx.kind = "index" =>
        LET s == ctx.projects
            later(p) == {q \in Range(s) : pages[q].project_date > pages[p].project_date}
            same(p) == {q \in Range(s) : pages[q].project_date = pages[p].project_date}
        IN \A i \in 1..Len(s) :
              /\ Cardinality(later(s[i])) < i
              /\ i <= Cardinality(later(s[i])) + Cardinality(same(s[i]))

\* A listing in which two case studies of the same date come in page-id
\* ascending order.
C8_Witness ==
    /\ ctx.kind = "index"
    /\ \E i \in 1..Len(ctx.projects), j \in 1..Len(ctx.projects) :
          /\ i < j
          /\ pages[ctx.projects[i]].project_date = pages[ctx.projects[j]].project_date
          /\ ctx.projects[i] < ctx.projects[j]

\* ------------------------------------------------------------------ C7
ReadKinds == {"index", "home"}

\* Two contexts answer the same call: the same handler on the same page with
\* the same query string.
SameCall(a, b) ==
    /\ a.kind = b.kind
    /\ a.page = b.page
    /\ a.kind = "index" => a.GET = b.GET

Distinct(S, key) == \A x \in S, y \in S : x # y => key[x] # key[y]

\* No two records a context's queries sort share a sort key.
TieFree(c) ==
    IF c.kind = "index"
    THEN Distinct(Listed(c.page, get_param(c.GET, "tag")), project_dates)
    ELSE /\ Distinct({p \in PageIds :
                        /\ pages[p].type = "CaseStudyPage" /\ pages[p].live
                        /\ \A q \in SelfAndAncestors(p) : ~pages[q].view_restricted},
                     project_dates)
         /\ Distinct(DOMAIN testimonials, client_names)
         /\ Distinct(DOMAIN press_cuts, press_dates)

TagSitePages ==
    (1 :> RootPage)
    @@ (2 :> NewPage("HomePage", <<1, 1>>, TRUE, FALSE, Null, Null))
    @@ (3 :> NewPage("CaseStudyIndexPage", <<1, 1, 1>>, TRUE, FALSE, Null, Null))

TagSiteLast == Cardinality(DOMAIN TagSitePages)

InitTags ==
    /\ pages = TagSitePages
    /\ images = {}
    /\ documents = {}
    /\ testimonials = <<>>
    /\ press_cuts = <<>>
    /\ steps = <<>>
    /\ gallery_images = <<>>
    /\ tags = <<>>
    /\ tagged_items = <<>>
    /\ seq = [page |-> TagSiteLast, image |-> 0, document |-> 0,
              testimonial |-> 0, press_cut |-> 0, step |-> 0,
              gallery_image |-> 0]
    /\ ctx = NoCtx
    /\ outcome = NoOutcome

NextTags ==
    \/ \E d \in 1..MaxDate :
          /\ seq.page < TagSiteLast + MaxTaggedPages
          /\ add_subpage(3, "CaseStudyPage", TRUE, FALSE, d, Null)
    \/ \E p \in PageIds, l \in Labels : tag_add(p, l)
    \/ \E GET \in Requests({"a", "A", "b", "a_1"}) : index_get_context(3, GET)

SpecTags == InitTags /\ [][NextTags]_vars

\* ------------------------------------------------------------------ C9
\* The labels attached to some case study.
AttachedLabels == {k[2] : k \in DOMAIN tagged_items}

\* C9 as the specification states it: a request whose tag parameter differs
\* only in letter case from a label attached to a case study lists what a
\* request with the lower-case form lists.
C9_CaseNormalized ==
    (/\ ctx.kind = "index"
     /\ truthy(get_param(ctx.GET, "tag"))
     /\ \E l \in AttachedLabels :
           /\ l # get_param(ctx.GET, "tag")
           /\ slugify(l) = slugify(get_param(ctx.GET, "tag")))
        => Range(ctx.projects)
              = Listed(ctx.page, slugify(get_param(ctx.GET, "tag")))

\* C9, amended: the tag parameter is compared as given with the stored slug
\* of each tag (the lower-case form of its label, suffixed when taken): a
\* live public child is listed exactly when it carries a tag whose slug
\* equals the parameter, so a parameter with an upper-case letter, such as
\* "A" for the label "a", lists nothing.
C9_ExactSlugMatch ==
    (ctx.kind = "index" /\ truthy(get_param(ctx.GET, "tag"))) =>
        LET tag == get_param(ctx.GET, "tag")
        IN /\ \A p \in Listed(ctx.page, None) :
                 p \in Range(ctx.projects) <=>
                    \E l \in Labels : /\ <<p, l>> \in DOMAIN tagged_items
                                      /\ tags[l] = tag
           /\ Range(ctx.projects) \subseteq Listed(ctx.page, None)
           /\ slugify(tag) # tag => ctx.projects = <<>>

\* The index was requested with ?tag=A while a listed case study carries the
\* label "a", and the listing came back empty.
C9_Witness ==
    /\ ctx.kind = "index"
    /\ get_param(ctx.GET, "tag") = "A"
    /\ \E p \in Listed(ctx.page, None) :
          <<p, "a">> \in DOMAIN tagged_items /\ tags["a"] = "a"
    /\ ctx.projects = <<>>

\* ---------------------------------------------------------- SpecFeatured
\* A site with two home pages (2 and 4), each with a case-study index (3 and
\* 5), that already holds a published case study under the second home
\* page's index (6), a draft (7) and one under a view restriction (8), each
\* dated MaxDate.  Editors add published case studies with any date to index
\* 3; visitors request either home page, one request at a time.
FeaturedSitePages ==
    (1 :> RootPage)
    @@ (2 :> NewPage("HomePage", <<1, 1>>, TRUE, FALSE, Null, Null))
    @@ (3 :> NewPage("CaseStudyIndexPage", <<1, 1, 1>>, TRUE, FALSE, Null, Null))
    @@ (4 :> NewPage("HomePage", <<1, 2>>, TRUE, FALSE, Null, Null))
    @@ (5 :> NewPage("CaseStudyIndexPage", <<1, 2, 1>>, TRUE, FALSE, Null, Null))
    @@ (6 :> NewPage("CaseStudyPage", <<1, 2, 1, 1>>, TRUE, FALSE, MaxDate, Null))
    @@ (7 :> NewPage("CaseStudyPage", <<1, 1, 1, 1>>, FALSE, FALSE, MaxDate, Null))
    @@ (8 :> NewPage("CaseStudyPage", <<1, 1, 1, 2>>, TRUE, TRUE, MaxDate, Null))

FeaturedSiteLast == Cardinality(DOMAIN FeaturedSitePages)

InitFeatured ==
    /\ pages = FeaturedSitePages
    /\ images = {}
    /\ documents = {}
    /\ testimonials = <<>>
    /\ press_cuts = <<>>
    /\ steps = <<>>
    /\ gallery_images = <<>>
    /\ tags = <<>>
    /\ tagged_items = <<>>
    /\ seq = [page |-> FeaturedSiteLast, image |-> 0, document |-> 0,
              testimonial |-> 0, press_cut |-> 0, step |-> 0,
              gallery_image |-> 0]
    /\ ctx = NoCtx
    /\ outcome = NoOutcome

NextFeatured ==
    \/ \E d \in 1..MaxDate :
          /\ ctx = NoCtx
          /\ seq.page < FeaturedSiteLast + MaxFeaturedPages
          /\ add_subpage(3, "CaseStudyPage", TRUE, FALSE, d, Null)
    \/ \E self \in PageIds : ctx = NoCtx /\ home_get_context(self)
    \/ render

SpecFeatured == InitFeatured /\ [][NextFeatured]_vars

\* ------------------------------------------------------------------ C3
\* The live, public case studies of the whole tree.
Visible ==
    {p \in PageIds :
        /\ pages[p].type = "CaseStudyPage"
        /\ pages[p].live
        /\ \A q \in SelfAndAncestors(p) : ~pages[q].view_restricted}

\* C3: "featured_projects" of HomePage.get_context holds min(4, n) distinct
\* case studies, n being the number of live public case studies anywhere in
\* the tree: none of them a draft or under a view restriction, in
\* project_date descending order, and no case study left out has a later
\* date than one taken.
C3_Featured ==
    ctx.kind = "home" =>
        LET fp == ctx.featured_projects
        IN /\ Len(fp) = (IF Cardinality(Visible) < 4 THEN Cardinality(Visible) ELSE 4)
           /\ Range(fp) \subseteq Visible
           /\ Cardinality(Range(fp)) = Len(fp)
           /\ DateDescending(fp)
           /\ \A p \in Visible \ Range(fp), q \in Range(fp) :
                 pages[p].project_date <= pages[q].project_date

\* Home page 2 was requested with more than four live public case studies
\* in the tree: four are featured, the one under the other home page's
\* index among them, and a fifth is left out.
C3_Witness ==
    /\ ctx.kind = "home" /\ ctx.page = 2
    /\ Cardinality(Visible) > 4
    /\ Len(ctx.featured_projects) = 4
    /\ 6 \in Range(ctx.featured_projects)
    /\ \E p \in Visible \ Range(ctx.featured_projects) :
          pages[p].project_date < MaxDate

\* -------------------------------------------------------------- SpecHome
\* A site with two home pages (2 and 3) and nothing else.  Editors add
\* case-study indexes, published or draft, under either home page and move
\* them between the two, and add testimonials and press cuts; visitors
\* request either home page, one request at a time.
HomeSitePages ==
    (1 :> RootPage)
    @@ (2 :> NewPage("HomePage", <<1, 1>>, TRUE, FALSE, Null, Null))
    @@ (3 :> NewPage("HomePage", <<1, 2>>, TRUE, FALSE, Null, Null))

HomeSiteLast == Cardinality(DOMAIN HomeSitePages)

InitHome ==
    /\ pages = HomeSitePages
    /\ images = {}
    /\ documents = {}
    /\ testimonials = <<>>
    /\ press_cuts = <<>>
    /\ steps = <<>>
    /\ gallery_images = <<>>
    /\ tags = <<>>
    /\ tagged_items = <<>>
    /\ seq = [page |-> HomeSiteLast, image |-> 0, document |-> 0,
              testimonial |-> 0, press_cut |-> 0, step |-> 0,
              gallery_image |-> 0]
    /\ ctx = NoCtx
    /\ outcome = NoOutcome

NextHome ==
    \/ \E h \in objects("HomePage"), is_live \in BOOLEAN :
          /\ ctx = NoCtx
          /\ seq.page < HomeSiteLast + MaxIndexPages
          /\ add_subpage(h, "CaseStudyIndexPage", is_live, FALSE, Null, Null)
    \/ \E p \in objects("CaseStudyIndexPage"), h \in objects("HomePage") :
          /\ ctx = NoCtx
          /\ last_child_path(h)[depth(h) + 1] <= MaxPathStep
          /\ move_page(p, h)
    \/ \E name \in 1..MaxName :
          /\ ctx = NoCtx
          /\ seq.testimonial < MaxTestimonials
          /\ create_testimonial(name, Null)
    \/ \E d \in 1..MaxDate :
          /\ ctx = NoCtx
          /\ seq.press_cut < MaxHomePressCuts
          /\ create_press_cut(d, Null, Null)
    \/ \E self \in PageIds : ctx = NoCtx /\ home_get_context(self)
    \/ render

SpecHome == InitHome /\ [][NextHome]_vars

\* ------------------------------------------------------------------ C4
\* The live case-study indexes that are direct children of a home page.
LiveIndexChildren(h) ==
    {p \in PageIds :
        /\ pages[p].type = "CaseStudyIndexPage"
        /\ parent_of(p) = h
        /\ pages[p].live}

\* C4: HomePage.get_context answers whatever the store holds: "testimonials"
\* holds every testimonial once and "press_cuts" at most three press cuts
\* (both empty when the store has none), "featured_projects" is a sequence
\* of live public case studies (empty when there is none), and
\* "case_study_index" is the first, in tree order, of the live
\* CaseStudyIndexPage children of this home page, or null when it has none:
\* never a draft and never a child of another home page.
C4_HomeContext ==
    ctx.kind = "home" =>
        /\ Range(ctx.testimonials) = DOMAIN testimonials
        /\ Len(ctx.testimonials) = Cardinality(DOMAIN testimonials)
        /\ Range(ctx.press_cuts) \subseteq DOMAIN press_cuts
        /\ Len(ctx.press_cuts) =
              (IF Cardinality(DOMAIN press_cuts) < 3
               THEN Cardinality(DOMAIN press_cuts) ELSE 3)
        /\ DOMAIN ctx.featured_projects = 1..Len(ctx.featured_projects)
        /\ Range(ctx.featured_projects) \subseteq Visible
        /\ LET cand == LiveIndexChildren(ctx.page)
           IN IF cand = {} THEN ctx.case_study_index = Null
              ELSE /\ ctx.case_study_index \in cand
                   /\ \A q \in cand :
                         pages[ctx.case_study_index].path[3] <= pages[q].path[3]

\* A home page whose only index child is a draft was requested while the
\* other home page has a live index and the store holds no testimonial and
\* no press cut: both sequences are empty and "case_study_index" is null.
C4_Witness ==
    /\ ctx.kind = "home"
    /\ DOMAIN testimonials = {} /\ DOMAIN press_cuts = {}
    /\ ctx.testimonials = <<>> /\ ctx.press_cuts = <<>>
    /\ ctx.featured_projects = <<>>
    /\ ctx.case_study_index = Null
    /\ \E p \in PageIds :
          /\ pages[p].type = "CaseStudyIndexPage"
          /\ parent_of(p) = ctx.page /\ ~pages[p].live
    /\ \E p \in PageIds :
          /\ pages[p].type = "CaseStudyIndexPage"
          /\ parent_of(p) # ctx.page /\ pages[p].live

\* ------------------------------------------------------------- SpecPress
\* A site with one home page (2).  Editors add press cuts with any date;
\* visitors request the home page and the press listing of home_view, one
\* request at a time.
PressSitePages ==
    (1 :> RootPage)
    @@ (2 :> NewPage("HomePage", <<1, 1>>, TRUE, FALSE, Null, Null))

PressSiteLast == Cardinality(DOMAIN PressSitePages)

InitPress ==
    /\ pages = PressSitePages
    /\ images = {}
    /\ documents = {}
    /\ testimonials = <<>>
    /\ press_cuts = <<>>
    /\ steps = <<>>
    /\ gallery_images = <<>>
    /\ tags = <<>>
    /\ tagged_items = <<>>
    /\ seq = [page |-> PressSiteLast, image |-> 0, document |-> 0,
              testimonial |-> 0, press_cut |-> 0, step |-> 0,
              gallery_image |-> 0]
    /\ ctx = NoCtx
    /\ outcome = NoOutcome

NextPress ==
    \/ \E d \in 1..MaxDate :
          /\ ctx = NoCtx
          /\ seq.press_cut < MaxPressCuts
          /\ create_press_cut(d, Null, Null)
    \/ \E self \in PageIds : ctx = NoCtx /\ home_get_context(self)
    \/ ctx = NoCtx /\ home_view
    \/ render

SpecPress == InitPress /\ [][NextPress]_vars

\* ----------------------------------------------------------------- C10
\* The press cuts in insertion order, cut to the first three.
FirstThreeById ==
    LET ids == DOMAIN press_cuts
        n == IF Cardinality(ids) < 3 THEN Cardinality(ids) ELSE 3
    IN [i \in 1..n |->
           CHOOSE r \in ids : Cardinality({q \in ids : q < r}) = i - 1]

\* C10 as the specification states it: "press_cuts" of HomePage.get_context
\* are the first press cuts in stored (insertion) order, with no date sort.
C10_StoredOrderNoDateSort ==
    (ctx.kind = "home" /\ Distinct(DOMAIN press_cuts, press_dates))
        => ctx.press_cuts = FirstThreeById

\* C10, amended: "press_cuts" of HomePage.get_context are at most three
\* press cuts in the model's default ordering, which is date descending
\* (PressCut.Meta.ordering), the same as home_view's explicit
\* order_by("-date"): each handler returns min(3, n) distinct press cuts,
\* latest first, none left out being later than one returned, and when the
\* press-cut dates are pairwise distinct both return the same sequence, the
\* i-th entry being the press cut with exactly i - 1 later ones.
C10_SameAsPressListing ==
    ctx.kind \in {"home", "home_view"} =>
        LET pc == ctx.press_cuts
            ids == DOMAIN press_cuts
        IN /\ Len(pc) = (IF Cardinality(ids) < 3 THEN Cardinality(ids) ELSE 3)
           /\ Range(pc) \subseteq ids
           /\ Cardinality(Range(pc)) = Len(pc)
           /\ \A i \in 1..Len(pc), j \in 1..Len(pc) :
                 i < j => press_cuts[pc[i]].date >= press_cuts[pc[j]].date
           /\ \A r \in ids \ Range(pc), q \in Range(pc) :
                 press_cuts[r].date <= press_cuts[q].date
           /\ Distinct(ids, press_dates) =>
                 \A i \in 1..Len(pc) :
                    Cardinality({r \in ids : press_cuts[r].date > press_cuts[pc[i]].date})
                       = i - 1

\* The home page was requested with press cuts of distinct dates stored in
\* another order than latest first, and "press_cuts" came back latest first.
C10_Witness ==
    /\ ctx.kind = "home"
    /\ Cardinality(DOMAIN press_cuts) >= 2
    /\ Distinct(DOMAIN press_cuts, press_dates)
    /\ ctx.press_cuts # FirstThreeById
    /\ ctx.press_cuts \in view_press_cuts

\* ------------------------------------------------------------- SpecMedia
\* A site with a home page (2), an about page (3), a method page (4), a
\* case-study index (5) and a case study (6).  Editors upload images and
\* documents, reference them from the pages, from testimonials, press cuts,
\* method steps and gallery images, and delete them.
MediaSitePages ==
    (1 :> RootPage)
    @@ (2 :> NewPage("HomePage", <<1, 1>>, TRUE, FALSE, Null, Null))
    @@ (3 :> NewPage("AboutPage", <<1, 1, 1>>, TRUE, FALSE, Null, Null))
    @@ (4 :> NewPage("MethodePage", <<1, 1, 2>>, TRUE, FALSE, Null, Null))
    @@ (5 :> NewPage("CaseStudyIndexPage", <<1, 1, 3>>, TRUE, FALSE, Null, Null))
    @@ (6 :> NewPage("CaseStudyPage", <<1, 1, 3, 1>>, TRUE, FALSE, 1, Null))

MediaSiteLast == Cardinality(DOMAIN MediaSitePages)

InitMedia ==
    /\ pages = MediaSitePages
    /\ images = {}
    /\ documents = {}
    /\ testimonials = <<>>
    /\ press_cuts = <<>>
    /\ steps = <<>>
    /\ gallery_images = <<>>
    /\ tags = <<>>
    /\ tagged_items = <<>>
    /\ seq = [page |-> MediaSiteLast, image |-> 0, document |-> 0,
              testimonial |-> 0, press_cut |-> 0, step |-> 0,
              gallery_image |-> 0]
    /\ ctx = NoCtx
    /\ outcome = NoOutcome

\* The references to media made so far: rows created and page images set.
MediaUses ==
    seq.testimonial + seq.press_cut + seq.step + seq.gallery_image
    + Cardinality({p \in PageIds : pages[p].image # Null})

NextMedia ==
    \/ seq.image < MaxImages /\ upload_image
    \/ seq.document < MaxDocuments /\ upload_document
    \/ \E p \in PageIds, i \in images :
          MediaUses < MaxMediaUses /\ set_page_image(p, i)
    \/ \E i \in images :
          MediaUses < MaxMediaUses /\ create_testimonial(1, i)
    \/ \E d \in documents \cup {Null}, i \in images \cup {Null} :
          /\ MediaUses < MaxMediaUses
          /\ d # Null \/ i # Null
          /\ create_press_cut(1, d, i)
    \/ \E p \in PageIds, i \in images :
          MediaUses < MaxMediaUses /\ add_step(p, i)
    \/ \E p \in PageIds, i \in images :
          MediaUses < MaxMediaUses /\ add_gallery_image(p, i)
    \/ \E i \in images : delete_image(i)
    \/ \E d \in documents : delete_document(d)

SpecMedia == InitMedia /\ [][NextMedia]_vars

\* ------------------------------------------------------------------ C5
\* A step that deletes the image or the document m.
DeletesImage(m) == m \in images /\ images' = images \ {m}

DeletesDocument(m) == m \in documents /\ documents' = documents \ {m}

\* The rows of a table keep their identity and their fields, but for the
\* field that pointed to the deleted item, which is null.
Nulled(old, new, field, m) ==
    /\ DOMAIN new = DOMAIN old
    /\ \A r \in DOMAIN old :
          new[r] = IF old[r][field] = m
                   THEN [old[r] EXCEPT ![field] = Null]
                   ELSE old[r]

\* C5 as the specification states it: deleting an image or a document
\* deletes no page and no record that referenced it, gallery images
\* included; the referencing field is set to null instead.
C5_AllReferencesWeak ==
    [][/\ \A m \in images : DeletesImage(m) =>
             /\ Nulled(pages, pages', "image", m)
             /\ Nulled(testimonials, testimonials', "client_logo", m)
             /\ Nulled(press_cuts, press_cuts', "cover_image", m)
             /\ Nulled(steps, steps', "schema", m)
             /\ Nulled(gallery_images, gallery_images', "image", m)
       /\ \A m \in documents : DeletesDocument(m) =>
             Nulled(press_cuts, press_cuts', "file", m)]_vars

\* C5, amended: the image and document references of pages, snippets and
\* method steps (client_logo, file, cover_image, schema, global_schema,
\* profile_image, main_image, hero_image) are weak: deleting the referenced
\* item deletes no page and none of those records, and sets the field to
\* null.  CaseStudyGalleryImage.image is not: deleting the image deletes the
\* gallery-image rows that reference it (and only those), never their page.
C5_WeakButGallery ==
    [][/\ \A m \in images : DeletesImage(m) =>
             /\ Nulled(pages, pages', "image", m)
             /\ Nulled(testimonials, testimonials', "client_logo", m)
             /\ Nulled(press_cuts, press_cuts', "cover_image", m)
             /\ Nulled(steps, steps', "schema", m)
             /\ gallery_images' =
                   Restrict(gallery_images,
                            {r \in DOMAIN gallery_images :
                                gallery_images[r].image # m})
       /\ \A m \in documents : DeletesDocument(m) =>
             /\ Nulled(press_cuts, press_cuts', "file", m)
             /\ UNCHANGED <<pages, testimonials, steps, gallery_images>>]_vars

\* An image that a testimonial and a gallery image referenced has been
\* deleted: the testimonial is still there without a logo, the gallery
\* image is gone, and its case study is still there.
C5_Witness ==
    /\ seq.testimonial >= 1 /\ seq.gallery_image >= 1
    /\ \E r \in DOMAIN testimonials : testimonials[r].client_logo = Null
    /\ Cardinality(DOMAIN gallery_images) < seq.gallery_image
    /\ 6 \in PageIds

\* ----------------------------------------------------------- SpecMethode
\* A site with one home page (2).  Editors add method pages and steps with
\* or without a schema image, upload and delete images, and delete pages.
MethodeSitePages ==
    (1 :> RootPage)
    @@ (2 :> NewPage("HomePage", <<1, 1>>, TRUE, FALSE, Null, Null))

MethodeSiteLast == Cardinality(DOMAIN MethodeSitePages)

InitMethode ==
    /\ pages = MethodeSitePages
    /\ images = {}
    /\ documents = {}
    /\ testimonials = <<>>
    /\ press_cuts = <<>>
    /\ steps = <<>>
    /\ gallery_images = <<>>
    /\ tags = <<>>
    /\ tagged_items = <<>>
    /\ seq = [page |-> MethodeSiteLast, image |-> 0, document |-> 0,
              testimonial |-> 0, press_cut |-> 0, step |-> 0,
              gallery_image |-> 0]
    /\ ctx = NoCtx
    /\ outcome = NoOutcome

NextMethode ==
    \/ /\ seq.page < MethodeSiteLast + MaxMethodePages
       /\ add_subpage(2, "MethodePage", TRUE, FALSE, Null, Null)
    \/ seq.image < MaxImages /\ upload_image
    \/ \E p \in PageIds, i \in images \cup {Null} :
          seq.step < MaxSteps /\ add_step(p, i)
    \/ \E i \in images : delete_image(i)
    \/ \E p \in objects("MethodePage") : delete_page(p)

SpecMethode == InitMethode /\ [][NextMethode]_vars

\* ------------------------------------------------------------------ C6
\* C6: every MethodeStep refers to an existing MethodePage; deleting a
\* MethodePage removes the steps of that page and no other step; deleting an
\* image removes no step and sets to null the schema of the steps that
\* referenced it.
C6_StepsFollowTheirPage ==
    /\ [](\A r \in DOMAIN steps :
             /\ steps[r].page \in PageIds
             /\ pages[steps[r].page].type = "MethodePage")
    /\ [][/\ \A p \in PageIds : (DOMAIN pages' = PageIds \ {p}) =>
                steps' = Restrict(steps, {r \in DOMAIN steps : steps[r].page # p})
          /\ \A m \in images : DeletesImage(m) =>
                Nulled(steps, steps', "schema", m)]_vars

\* One of two method pages with steps has been deleted with its step, the
\* other page's step is still there, and the image that step referenced has
\* been deleted, leaving it without a schema.
C6_Witness ==
    /\ \E p \in (MethodeSiteLast + 1)..seq.page : p \notin PageIds
    /\ seq.step = 2
    /\ Cardinality(DOMAIN steps) = 1
    /\ \A r \in DOMAIN steps : steps[r].schema = Null
    /\ seq.image >= 1 /\ images = {}

====
